---- MODULE Spec2Model ----
(***************************************************************************)
(* Guest-side environment of the zkVM (risc0/zkvm/src/guest/env.rs):       *)
(* the journal hasher, the running assumptions digest, the lifecycle       *)
(* (init / finalize / exit / pause), proof composition (verify,            *)
(* verify_integrity), send_recv_slice, cycle_count and the FdReader /      *)
(* FdWriter byte/word codec.                                               *)
(*                                                                         *)
(* Digests are modelled as terms: a hash is the tagged tuple of what was   *)
(* hashed, so two digests are equal exactly when their preimages are       *)
(* (collision freedom of SHA-256 is assumed, not checked).                 *)
(***************************************************************************)
EXTENDS Integers, Sequences, FiniteSets, TLC

VARIABLES
    HASHER,                 \* static mut HASHER: OnceCell<Sha256>
    ASSUMPTIONS_DIGEST,     \* static mut ASSUMPTIONS_DIGEST: MaybePruned<Assumptions>
    MEMORY_IMAGE_ENTROPY,   \* static mut MEMORY_IMAGE_ENTROPY: [u32; 4]
    status,                 \* where the guest is: running, blocked in a host call, halted, ...
    op,                     \* the public operation the guest is in (or was last in), with its arguments
    result,                 \* what that operation returned to its caller
    from_host_buf,          \* verify's from_host_buf, once the host has filled it
    host_calls,             \* the host calls issued by the latest step, in order
    journal_writes,         \* history: the buffers written through journal() since the last init
    ok_claims,              \* history: the claim digests of the verification calls that returned Ok
    segment_claims,         \* history: those of them that returned since the last init
    segment,                \* history: number of init() calls so far
    nops,                   \* number of public operations started
    effects,                \* the host calls and hook invocations of the latest FdWriter operation, in program order
    stdin_src,              \* history: what the host was given to supply on stdin
    stdin_pos,              \* number of bytes of stdin the host has handed out
    rd                      \* the FdReader operation in progress (or the last one): its locals

vars == <<HASHER, ASSUMPTIONS_DIGEST, MEMORY_IMAGE_ENTROPY, status, op, result,
          from_host_buf, host_calls, journal_writes, ok_claims, segment_claims, segment, nops,
          effects, stdin_src, stdin_pos, rd>>

\* the state of the stdin channel and of its reader
io == <<stdin_src, stdin_pos, rd>>

----------------------------------------------------------------------------
(* Bounds of the model *)

MaxOps == 3         \* public operations per behaviour
MaxPadLen == 5      \* longest buffer given to the codec (covers every residue mod 4)
MaxElems == 5       \* largest element count the host returns to send_recv_slice

(* Program constants *)

WORD_SIZE == 4
STDIN == 0
STDOUT == 1
STDERR == 2
JOURNAL == 3

----------------------------------------------------------------------------
(* Digests and hashing *)

Raw(n) == <<"raw", n>>
ZERO == Raw(0)

Sha256_new == <<>>
Sha256_update(state, bytes) == state \o bytes
Sha256_finalize(state) == <<"sha256", state>>

\* <[u8] as Digestible>::digest
BytesDigest(bytes) == Sha256_finalize(Sha256_update(Sha256_new, bytes))

\* tagged_list_cons("risc0.Assumptions", head, tail)
tagged_list_cons(head, tail) == <<"risc0.Assumptions", head, tail>>

RECURSIVE tagged_list(_)
\* tagged_list("risc0.Assumptions", list): the first element is the outermost cons
tagged_list(list) ==
    IF list = <<>> THEN ZERO
    ELSE tagged_list_cons(Head(list), tagged_list(Tail(list)))

----------------------------------------------------------------------------
(* MaybePruned<T>, Option<T>, ExitCode, Output, ReceiptClaim *)

Pruned(d) == <<"Pruned", d>>
Value(v) == <<"Value", v>>
None == <<"None">>
Some(v) == <<"Some", v>>

Halted(user) == [kind |-> "Halted", user |-> user]
Paused(user) == [kind |-> "Paused", user |-> user]
SystemSplit == [kind |-> "SystemSplit", user |-> 0]

\* ExitCode::from_pair
from_pair(sys_exit, user_exit) ==
    CASE sys_exit = 0 -> [ok |-> TRUE, val |-> Halted(user_exit)]
      [] sys_exit = 1 -> [ok |-> TRUE, val |-> Paused(user_exit)]
      [] sys_exit = 2 -> [ok |-> TRUE, val |-> SystemSplit]
      [] OTHER -> [ok |-> FALSE, val |-> <<sys_exit, user_exit>>]

\* ExitCode::into_pair
into_pair(exit_code) ==
    CASE exit_code.kind = "Halted" -> <<0, exit_code.user>>
      [] exit_code.kind = "Paused" -> <<1, exit_code.user>>
      [] OTHER -> <<2, 0>>

\* ExitCode::is_ok
is_ok(exit_code) == exit_code \in {Halted(0), Paused(0)}

\* MaybePruned<Assumptions>: Value(list of claim digests) or Pruned(digest)
AssumptionsDigest(mp) == IF mp[1] = "Pruned" THEN mp[2] ELSE tagged_list(mp[2])
\* MaybePruned<Assumptions>::is_empty
AssumptionsIsEmpty(mp) == IF mp[1] = "Pruned" THEN mp[2] = ZERO ELSE mp[2] = <<>>
\* MaybePruned<Assumptions>::add
AssumptionsAdd(mp, claim_digest) ==
    IF mp[1] = "Pruned" THEN Pruned(tagged_list_cons(claim_digest, mp[2]))
    ELSE Value(<<claim_digest>> \o mp[2])

\* MaybePruned<Vec<u8>>: the journal of an Output
JournalDigest(mp) == IF mp[1] = "Pruned" THEN mp[2] ELSE BytesDigest(mp[2])

Output(journal, assumptions) == [journal |-> journal, assumptions |-> assumptions]
\* Output::digest
OutputDigest(output) ==
    <<"risc0.Output", JournalDigest(output.journal), AssumptionsDigest(output.assumptions)>>

\* MaybePruned<Option<Output>>::digest
OptionOutputDigest(mp) ==
    IF mp[1] = "Pruned" THEN mp[2]
    ELSE IF mp[2] = None THEN ZERO ELSE OutputDigest(mp[2][2])
\* MaybePruned<Option<Output>>::is_none
OptionOutputIsNone(mp) == IF mp[1] = "Pruned" THEN mp[2] = ZERO ELSE mp[2] = None

ReceiptClaim(pre, post, exit_code, input, output) ==
    [pre |-> pre, post |-> post, exit_code |-> exit_code, input |-> input, output |-> output]
\* ReceiptClaim::digest
ReceiptClaimDigest(claim) ==
    <<"risc0.ReceiptClaim", claim.input, claim.pre[2], claim.post[2],
      OptionOutputDigest(claim.output), into_pair(claim.exit_code)>>

----------------------------------------------------------------------------
(* Input sets *)

Entropy == {<<1, 2, 3, 4>>, <<5, 6, 7, 8>>}          \* what sys_rand may fill in
Bufs == {<<>>, <<1>>, <<2, 3>>}                      \* slices committed to the journal
ImageIds == {ZERO, Raw(1)}
VerifyJournals == {<<>>, <<7>>}
PostDigests == {Raw(2), Raw(3)}                      \* post_state_digest answers of the host
SysExitCodes == {0, 1, 2, 3}                         \* raw exit codes the host may answer
UserExitCodes == {0, 1}

\* Buffers and word slices given to the FdWriter codec: one buffer of each length.
CodecBufs == { [i \in 1..n |-> i] : n \in 0..MaxPadLen }
CodecWords == {<<>>, <<16909060>>, <<0, 255>>}

\* The claims handed to verify_integrity: every shape of claim.output.
ClaimOutputs ==
    { Value(None), Pruned(ZERO), Pruned(Raw(9)),
      Value(Some(Output(Pruned(BytesDigest(<<>>)), Pruned(ZERO)))),
      Value(Some(Output(Pruned(BytesDigest(<<>>)), Value(<<>>)))),
      Value(Some(Output(Pruned(BytesDigest(<<>>)), Pruned(Raw(9))))),
      Value(Some(Output(Pruned(BytesDigest(<<>>)), Value(<<Raw(9)>>)))) }
IntegrityClaims ==
    { ReceiptClaim(Pruned(Raw(1)), Pruned(Raw(2)), Halted(0), ZERO, o) : o \in ClaimOutputs }

----------------------------------------------------------------------------
(* Lifecycle: init, finalize *)

\* init without the sys_rand call
init_NoRand(hasher, entropy) ==
    IF hasher # None
    THEN [panic |-> TRUE, HASHER |-> hasher, calls |-> <<>>]
    ELSE [panic |-> FALSE, HASHER |-> Some(Sha256_new), calls |-> <<>>]

\* init(): HASHER.set(Sha256::new()).unwrap(); sys_rand(MEMORY_IMAGE_ENTROPY)
init(hasher, entropy) ==
    IF hasher # None
    THEN [panic |-> TRUE, HASHER |-> hasher, calls |-> <<>>]
    ELSE [panic |-> FALSE, HASHER |-> Some(Sha256_new),
          calls |-> << <<"sys_rand", Len(entropy)>> >>]

\* finalize hashing a new, empty Sha256 instead of the one taken from HASHER
finalize_FreshHasher(hasher, assumptions, halt, user_exit) ==
    IF hasher = None
    THEN [panic |-> TRUE, HASHER |-> None, calls |-> <<>>]
    ELSE [panic |-> FALSE, HASHER |-> None,
          calls |-> << <<IF halt THEN "sys_halt" ELSE "sys_pause", user_exit,
                         OutputDigest(Output(Pruned(Sha256_finalize(Sha256_new)),
                                             Pruned(AssumptionsDigest(assumptions))))>> >>]

\* finalize reading the hasher without taking it out of HASHER
finalize_KeepsHasher(hasher, assumptions, halt, user_exit) ==
    IF hasher = None
    THEN [panic |-> TRUE, HASHER |-> None, calls |-> <<>>]
    ELSE [panic |-> FALSE, HASHER |-> hasher,
          calls |-> << <<IF halt THEN "sys_halt" ELSE "sys_pause", user_exit,
                         OutputDigest(Output(Pruned(Sha256_finalize(hasher[2])),
                                             Pruned(AssumptionsDigest(assumptions))))>> >>]

\* finalize calling sys_halt whatever `halt` is
finalize_AlwaysHalts(hasher, assumptions, halt, user_exit) ==
    IF hasher = None
    THEN [panic |-> TRUE, HASHER |-> None, calls |-> <<>>]
    ELSE [panic |-> FALSE, HASHER |-> None,
          calls |-> << <<"sys_halt", user_exit,
                         OutputDigest(Output(Pruned(Sha256_finalize(hasher[2])),
                                             Pruned(AssumptionsDigest(assumptions))))>> >>]

\* finalize(halt, user_exit)
finalize(hasher, assumptions, halt, user_exit) ==
    IF hasher = None
    THEN [panic |-> TRUE, HASHER |-> None, calls |-> <<>>]
    ELSE LET journal_digest == Sha256_finalize(hasher[2])
             output == Output(Pruned(journal_digest),
                              Pruned(AssumptionsDigest(assumptions)))
             output_words == OutputDigest(output)
         IN  [panic |-> FALSE, HASHER |-> None,
              calls |-> << <<IF halt THEN "sys_halt" ELSE "sys_pause",
                             user_exit, output_words>> >>]

----------------------------------------------------------------------------
(* FdWriter *)

\* a hook that forgets to feed the hasher
journal_hook_NoUpdate(hasher, bytes) == hasher

\* journal()'s hook: HASHER.get_mut().unwrap_unchecked().update(bytes);
\* with no hasher present the unchecked unwrap is undefined behaviour.
journal_hook(hasher, bytes) ==
    IF hasher \in {None, <<"UB">>} THEN <<"UB">>
    ELSE Some(Sha256_update(hasher[2], bytes))

\* a hook of stdout / stderr that feeds the journal hasher
nop_hook_Updates(hasher, bytes) == Some(Sha256_update(hasher[2], bytes))

\* stdout() / stderr(): the hook |_| {}
nop_hook(hasher, bytes) == hasher

stdout == [fd |-> STDOUT, hook |-> "nop"]
stderr == [fd |-> STDERR, hook |-> "nop"]
journal == [fd |-> JOURNAL, hook |-> "journal"]
Writers == {stdout, stderr, journal}

\* write_bytes running the hook before the host call
write_bytes_HookFirst(w, hasher, bytes) ==
    [calls |-> << <<"sys_write", w.fd, bytes>> >>,
     HASHER |-> IF w.hook = "journal" THEN journal_hook(hasher, bytes)
                ELSE nop_hook(hasher, bytes),
     effects |-> << <<"hook", w.hook, bytes>>, <<"sys_write", w.fd, bytes>> >>]

\* FdWriter::write_bytes: sys_write(fd, bytes), then (self.hook)(bytes)
write_bytes(w, hasher, bytes) ==
    [calls |-> << <<"sys_write", w.fd, bytes>> >>,
     HASHER |-> IF w.hook = "journal" THEN journal_hook(hasher, bytes)
                ELSE nop_hook(hasher, bytes),
     effects |-> << <<"sys_write", w.fd, bytes>>, <<"hook", w.hook, bytes>> >>]

\* bytemuck::cast_slice::<u32, u8>: little-endian bytes of each word
RECURSIVE cast_words(_)
cast_words(words) ==
    IF words = <<>> THEN <<>>
    ELSE LET x == Head(words)
         IN  <<x % 256, (x \div 256) % 256, (x \div 65536) % 256, (x \div 16777216) % 256>>
             \o cast_words(Tail(words))

\* Write::write_slice for a slice of u8
write_slice(w, hasher, buf) == write_bytes(w, hasher, buf)

\* WordWrite::write_words
write_words(w, hasher, words) == write_bytes(w, hasher, cast_words(words))

ZeroWord == [i \in 1..WORD_SIZE |-> 0]

\* write_padded_bytes without the test that the length is unaligned
write_padded_bytes_AlwaysPads(w, hasher, bytes) ==
    LET first == write_bytes(w, hasher, bytes)
        pad_bytes == WORD_SIZE - (Len(bytes) % WORD_SIZE)
        second == write_bytes(w, first.HASHER, SubSeq(ZeroWord, 1, pad_bytes))
    IN  [calls |-> first.calls \o second.calls, HASHER |-> second.HASHER,
         effects |-> first.effects \o second.effects]

\* WordWrite::write_padded_bytes
write_padded_bytes(w, hasher, bytes) ==
    LET first == write_bytes(w, hasher, bytes)
        unaligned == Len(bytes) % WORD_SIZE
    IN  IF unaligned # 0
        THEN LET pad_bytes == WORD_SIZE - unaligned
                 second == write_bytes(w, first.HASHER, SubSeq(ZeroWord, 1, pad_bytes))
             IN  [calls |-> first.calls \o second.calls, HASHER |-> second.HASHER,
                  effects |-> first.effects \o second.effects]
        ELSE first

----------------------------------------------------------------------------
(* FdReader *)

stdin == [fd |-> STDIN]

\* the host side of sys_read / sys_read_words: how many bytes it may hand out
\* for a request of `len` bytes when `avail` bytes are left on the channel
HostReadAnswers(len, avail) == 0..(IF len < avail THEN len ELSE avail)

\* the bytes the host hands out: the next nread bytes of the channel
HostReadBytes(stream, pos, nread) == SubSeq(stream, pos + 1, pos + nread)

\* the locals of an FdReader operation: which host read it is at (phase), the
\* caller's buffer (its length in bytes, and the bytes filled so far), the length of
\* the buffer given to read_bytes_all, tot_read, whether the loop was left by break,
\* the latest host read <<requested, returned>>, and the channel position at its start
ReaderIdle ==
    [phase |-> "idle", len |-> 0, buf |-> <<>>, want |-> 0, tot_read |-> 0,
     brk |-> FALSE, last |-> <<>>, start |-> 0]

\* the locals on entry to an operation that reads into a buffer of len bytes
ReaderEnter(phase, len, pos) ==
    [phase |-> phase, len |-> len, buf |-> <<>>, want |-> len, tot_read |-> 0,
     brk |-> FALSE, last |-> <<>>, start |-> pos]

\* FdReader::read_bytes: one sys_read(fd, buf, buf.len()); the host returns nread
read_bytes(r, len, nread) == << <<"sys_read", r.fd, len, nread>> >>

\* read_bytes_all: the loop condition `while !buf.is_empty()`, false after a break
read_bytes_all_loops(l) == ~l.brk /\ l.tot_read < l.want

\* read_bytes_all without the `if nread == 0 { break; }`
read_bytes_all_body_NoBreak(l, bytes) ==
    LET nread == Len(bytes)
    IN  [l EXCEPT !.tot_read = l.tot_read + nread,
                  !.buf = IF l.phase = "pad" THEN l.buf ELSE l.buf \o bytes]

\* read_bytes_all without `(_, buf) = buf.split_at_mut(nread)`: every host read
\* lands at the start of the buffer
read_bytes_all_body_NoSplit(l, bytes) ==
    LET nread == Len(bytes)
    IN  IF nread = 0
        THEN [l EXCEPT !.brk = TRUE]
        ELSE [l EXCEPT !.tot_read = l.tot_read + nread,
                       !.buf = IF l.phase = "pad" THEN l.buf
                               ELSE bytes \o SubSeq(l.buf, nread + 1, Len(l.buf))]

\* read_bytes_all: one iteration of the loop body, the host having returned `bytes`
read_bytes_all_body(l, bytes) ==
    LET nread == Len(bytes)
    IN  IF nread = 0
        THEN [l EXCEPT !.brk = TRUE]
        ELSE [l EXCEPT !.tot_read = l.tot_read + nread,
                       !.buf = IF l.phase = "pad" THEN l.buf ELSE l.buf \o bytes]

\* WordRead::read_words after sys_read_words returned nread_bytes
read_words(nwords, nread_bytes) ==
    IF nread_bytes = nwords * WORD_SIZE THEN <<"Ok">>
    ELSE <<"Err", "DeserializeUnexpectedEnd">>

\* read_padded_bytes leaving the padding on the channel
read_padded_bytes_data_NoPadding(l) ==
    IF l.tot_read # l.len
    THEN [result |-> <<"Err", "DeserializeUnexpectedEnd">>, pad_bytes |-> 0]
    ELSE [result |-> <<"Ok">>, pad_bytes |-> 0]

\* WordRead::read_padded_bytes, after read_bytes_all(bytes) returned:
\* an error, or the padding to read next, or Ok
read_padded_bytes_data(l) ==
    IF l.tot_read # l.len
    THEN [result |-> <<"Err", "DeserializeUnexpectedEnd">>, pad_bytes |-> 0]
    ELSE LET unaligned == l.len % WORD_SIZE
         IN  IF unaligned # 0
             THEN [result |-> <<"pending">>, pad_bytes |-> WORD_SIZE - unaligned]
             ELSE [result |-> <<"Ok">>, pad_bytes |-> 0]

\* WordRead::read_padded_bytes, after read_bytes_all(padding[..pad_bytes]) returned
read_padded_bytes_padding(l) ==
    IF l.tot_read # l.want THEN <<"Err", "DeserializeUnexpectedEnd">> ELSE <<"Ok">>

\* bytemuck::try_cast_slice_mut to [u32]: the buffer must start on a word boundary
\* and hold a whole number of words
try_cast_slice_mut(slice) == slice.aligned /\ slice.len % WORD_SIZE = 0

\* read_slice ignoring the count returned by read_bytes_all
read_slice_bytes_Unchecked(l) == <<"Ok">>

\* Read::read_slice, unaligned branch, after read_bytes_all(bytes) returned
read_slice_bytes(l) ==
    IF l.tot_read # l.len THEN <<"panic", "DeserializeUnexpectedEnd">> ELSE <<"Ok">>

\* Read::read_slice, word branch: self.read_words(words).unwrap()
read_slice_words(nwords, nread_bytes) ==
    LET r == read_words(nwords, nread_bytes)
    IN  IF r = <<"Ok">> THEN <<"Ok">> ELSE <<"panic", r[2]>>

----------------------------------------------------------------------------
(* send_recv_slice *)

\* risc0_zkvm_platform::align_up, for an alignment that is a power of two
align_up(addr, align) == ((addr + align - 1) \div align) * align

\* syscall(name, to_host, from_host): the bytes sent and the words that can be received
syscall(to_host_bytes, from_host_words) == <<"syscall", to_host_bytes, from_host_words>>

\* send_recv_slice: the first call, bytemuck::cast_slice(to_host) sent, nothing received
send_recv_slice_first(T, to_host_len) == syscall(T.size * to_host_len, 0)

\* send_recv_slice: the words to allocate, align_up(size_of::<T>() * nelem, WORD_SIZE) / WORD_SIZE
send_recv_slice_nwords(T, U, nelem) == align_up(T.size * nelem, WORD_SIZE) \div WORD_SIZE

\* send_recv_slice: the second call, nothing sent, from_host_buf to receive into
send_recv_slice_second(nwords) == syscall(0, nwords)

\* bytemuck::cast_slice::<u32, U> on a buffer of nwords words: the length of the slice
\* of U, or a panic (pointer not aligned for U, or bytes left over)
cast_slice_from_words(U, nwords, ptr_aligned) ==
    IF U.align > WORD_SIZE /\ ~ptr_aligned
    THEN <<"panic", "TargetAlignmentGreaterAndInputNotAligned">>
    ELSE IF U.size = WORD_SIZE THEN <<"Ok", nwords>>
    ELSE IF (nwords * WORD_SIZE) % U.size = 0 THEN <<"Ok", (nwords * WORD_SIZE) \div U.size>>
    ELSE <<"panic", "OutputSliceWouldHaveSlop">>

\* send_recv_slice: &bytemuck::cast_slice(from_host_buf)[..nelem], the length of the
\* slice returned or a panic
send_recv_slice_result(U, nwords, nelem, ptr_aligned) ==
    LET cast == cast_slice_from_words(U, nwords, ptr_aligned)
    IN  IF cast[1] = "panic" THEN cast
        ELSE IF nelem > cast[2] THEN <<"panic", "range end index out of range">>
        ELSE <<"Ok", nelem>>

----------------------------------------------------------------------------
(* Proof composition: verify, verify_integrity *)

\* verify, up to and including the sys_verify host call
verify_call(image_id, journal_bytes) ==
    LET journal_digest == BytesDigest(journal_bytes)
    IN  << <<"sys_verify", image_id, journal_digest>> >>

\* verify without the is_ok() test: every exit code that decodes is accepted
verify_resume_AnyDecodedCode(assumptions, image_id, journal_bytes, buf) ==
    LET exit_code == from_pair(buf[2], 0)
    IN  IF ~exit_code.ok
        THEN [result |-> <<"BadExitCodeResponse", exit_code.val>>,
              ASSUMPTIONS_DIGEST |-> assumptions]
        ELSE [result |-> <<"Ok">>,
              ASSUMPTIONS_DIGEST |->
                  AssumptionsAdd(assumptions, ReceiptClaimDigest(
                      ReceiptClaim(Pruned(image_id), Pruned(buf[1]), exit_code.val, ZERO,
                          Value(Some(Output(Pruned(BytesDigest(journal_bytes)),
                                            Pruned(ZERO)))))))]

\* verify building its claim with exit_code fixed to Halted(0), whatever the host answered
verify_resume_AlwaysHalted(assumptions, image_id, journal_bytes, buf) ==
    LET exit_code == from_pair(buf[2], 0)
    IN  IF ~exit_code.ok \/ ~is_ok(exit_code.val)
        THEN [result |-> <<"BadExitCodeResponse", <<buf[2], 0>>>>,
              ASSUMPTIONS_DIGEST |-> assumptions]
        ELSE [result |-> <<"Ok">>,
              ASSUMPTIONS_DIGEST |->
                  AssumptionsAdd(assumptions, ReceiptClaimDigest(
                      ReceiptClaim(Pruned(image_id), Pruned(buf[1]), Halted(0), ZERO,
                          Value(Some(Output(Pruned(BytesDigest(journal_bytes)),
                                            Pruned(ZERO)))))))]

\* verify, from the return of sys_verify to the end
verify_resume(assumptions, image_id, journal_bytes, buf) ==
    LET journal_digest == BytesDigest(journal_bytes)
        post_state_digest == buf[1]
        sys_exit_code == buf[2]
        exit_code == from_pair(sys_exit_code, 0)
    IN  IF ~exit_code.ok
        THEN [result |-> <<"BadExitCodeResponse", exit_code.val>>,
              ASSUMPTIONS_DIGEST |-> assumptions]
        ELSE IF ~is_ok(exit_code.val)
        THEN [result |-> <<"BadExitCodeResponse", <<sys_exit_code, 0>>>>,
              ASSUMPTIONS_DIGEST |-> assumptions]
        ELSE LET assumption_claim ==
                     ReceiptClaim(Pruned(image_id), Pruned(post_state_digest),
                                  exit_code.val, ZERO,
                                  Value(Some(Output(Pruned(journal_digest), Pruned(ZERO)))))
             IN  [result |-> <<"Ok">>,
                  ASSUMPTIONS_DIGEST |->
                      AssumptionsAdd(assumptions, ReceiptClaimDigest(assumption_claim))]

\* verify_integrity without the emptiness check
verify_integrity_check_Unchecked(claim) == <<"Ok">>

\* verify_integrity asking as_value() before is_none(): a pruned zero output is an error
verify_integrity_check_NoIsNone(claim) ==
    IF claim.output[1] = "Pruned" THEN <<"PrunedValueError", claim.output[2]>>
    ELSE IF claim.output[2] = None THEN <<"Ok">>
    ELSE IF AssumptionsIsEmpty(claim.output[2][2].assumptions) THEN <<"Ok">>
    ELSE <<"NonEmptyAssumptionsList">>

\* verify_integrity: the check that the claim's assumptions list is empty
verify_integrity_check(claim) ==
    IF OptionOutputIsNone(claim.output) THEN <<"Ok">>
    ELSE IF claim.output[1] = "Pruned" THEN <<"PrunedValueError", claim.output[2]>>
    ELSE IF claim.output[2] = None THEN <<"Ok">>
    ELSE IF AssumptionsIsEmpty(claim.output[2][2].assumptions) THEN <<"Ok">>
    ELSE <<"NonEmptyAssumptionsList">>

\* verify_integrity: the sys_verify_integrity host call
verify_integrity_call(claim) ==
    LET claim_digest == ReceiptClaimDigest(claim)
    IN  << <<"sys_verify_integrity", claim_digest>> >>

\* verify_integrity returning Ok without adding the claim
verify_integrity_resume_NoAdd(assumptions, claim) ==
    [result |-> <<"Ok">>, ASSUMPTIONS_DIGEST |-> assumptions]

\* verify_integrity, from the return of sys_verify_integrity to the end
verify_integrity_resume(assumptions, claim) ==
    LET claim_digest == ReceiptClaimDigest(claim)
    IN  [result |-> <<"Ok">>,
         ASSUMPTIONS_DIGEST |-> AssumptionsAdd(assumptions, claim_digest)]

----------------------------------------------------------------------------
(* The state machine *)

InitState(src) ==
    \E entropy \in Entropy :
        LET r == init(None, entropy)
        IN  /\ HASHER = r.HASHER
            /\ ASSUMPTIONS_DIGEST = Pruned(ZERO)
            /\ MEMORY_IMAGE_ENTROPY = entropy
            /\ status = "running"
            /\ op = [name |-> "init", arg |-> <<>>]
            /\ result = <<"Ok">>
            /\ from_host_buf = <<>>
            /\ host_calls = r.calls
            /\ journal_writes = <<>>
            /\ ok_claims = <<>>
            /\ segment_claims = <<>>
            /\ segment = 1
            /\ nops = 0
            /\ effects = <<>>
            /\ stdin_src = src
            /\ stdin_pos = 0
            /\ rd = ReaderIdle

\* the guest is started with nothing on stdin
NoInput == [values |-> <<>>, stream |-> <<>>]

Init == InitState(NoInput)

CanCall == status = "running" /\ nops < MaxOps

\* A write through an FdWriter; r is what the write operation computed and ok what
\* it returns. The journal hook run without a hasher is undefined behaviour: the
\* process may die inside any of the hook calls (after `issued` of the sys_write
\* calls, the later ones never made, and nothing returned) or run to the end, with
\* any hasher.
WriteStep(name, w, data, r, ok) ==
    /\ CanCall
    /\ \E issued \in 1..Len(r.calls) :
           /\ IF r.HASHER = <<"UB">>
              THEN /\ HASHER' \in {None, Some(Sha256_new),
                                   Some(Sha256_update(Sha256_new, r.calls[1][3]))}
                   /\ status' \in IF issued < Len(r.calls) THEN {"panicked"}
                                  ELSE {"running", "panicked"}
              ELSE /\ issued = Len(r.calls)
                   /\ HASHER' = r.HASHER
                   /\ status' = "running"
           /\ result' = IF status' = "panicked" THEN <<"diverged">> ELSE ok
           /\ host_calls' = SubSeq(r.calls, 1, issued)
           /\ effects' = SubSeq(r.effects, 1, 2 * issued)
           /\ journal_writes' = IF w.hook = "journal"
                                THEN journal_writes \o [i \in 1..issued |-> r.calls[i][3]]
                                ELSE journal_writes
    /\ op' = [name |-> name, arg |-> <<w.fd, data>>]
    /\ nops' = nops + 1
    /\ UNCHANGED io
    /\ UNCHANGED <<ASSUMPTIONS_DIGEST, MEMORY_IMAGE_ENTROPY, from_host_buf, ok_claims,
                   segment_claims, segment>>

\* commit_slice(slice) / write_slice(slice) / FdWriter::write_slice
WriteSlice(w, buf) ==
    WriteStep("write_slice", w, buf, write_slice(w, HASHER, buf), <<"Ok">>)

\* FdWriter::write_words
WriteWords(w, words) ==
    WriteStep("write_words", w, words, write_words(w, HASHER, words), <<"Ok">>)

\* FdWriter::write_padded_bytes
WritePaddedBytes(w, bytes) ==
    WriteStep("write_padded_bytes", w, bytes, write_padded_bytes(w, HASHER, bytes),
              <<"Ok">>)

\* <FdWriter as std::io::Write>::write(buf): write_bytes(buf), then Ok(buf.len())
IoWrite(w, buf) ==
    WriteStep("io_write", w, buf, write_bytes(w, HASHER, buf), <<"Ok", Len(buf)>>)

\* <FdWriter as std::io::Write>::flush: nothing is buffered, nothing is done
IoFlush(w) ==
    /\ CanCall
    /\ op' = [name |-> "io_flush", arg |-> <<w.fd>>]
    /\ result' = <<"Ok">>
    /\ host_calls' = <<>>
    /\ effects' = <<>>
    /\ nops' = nops + 1
    /\ UNCHANGED io
    /\ UNCHANGED <<HASHER, ASSUMPTIONS_DIGEST, MEMORY_IMAGE_ENTROPY, status,
                   from_host_buf, journal_writes, ok_claims, segment_claims, segment>>

\* verify(image_id, journal): runs up to the sys_verify host call and blocks in it
Verify(image_id, journal_bytes) ==
    /\ CanCall
    /\ host_calls' = verify_call(image_id, journal_bytes)
    /\ op' = [name |-> "verify", arg |-> <<image_id, journal_bytes>>]
    /\ result' = <<"pending">>
    /\ status' = "in_sys_verify"
    /\ nops' = nops + 1
    /\ effects' = <<>>
    /\ UNCHANGED io
    /\ UNCHANGED <<HASHER, ASSUMPTIONS_DIGEST, MEMORY_IMAGE_ENTROPY, from_host_buf,
                   journal_writes, ok_claims, segment_claims, segment>>

\* The host answers sys_verify: it fills from_host_buf and returns.
SysVerifyReturn(post_state_digest, sys_exit_code) ==
    /\ status = "in_sys_verify"
    /\ from_host_buf' = <<post_state_digest, sys_exit_code>>
    /\ status' = "sys_verify_returned"
    /\ host_calls' = <<>>
    /\ effects' = <<>>
    /\ UNCHANGED io
    /\ UNCHANGED <<HASHER, ASSUMPTIONS_DIGEST, MEMORY_IMAGE_ENTROPY, op, result,
                   journal_writes, ok_claims, segment_claims, segment, nops>>

\* verify continues after sys_verify returned.
VerifyResume ==
    /\ status = "sys_verify_returned"
    /\ LET r == verify_resume(ASSUMPTIONS_DIGEST, op.arg[1], op.arg[2], from_host_buf)
           verified == ReceiptClaimDigest(
                           ReceiptClaim(Pruned(op.arg[1]), Pruned(from_host_buf[1]),
                                        from_pair(from_host_buf[2], 0).val, ZERO,
                                        Value(Some(Output(Pruned(BytesDigest(op.arg[2])),
                                                          Pruned(ZERO))))))
       IN  /\ ASSUMPTIONS_DIGEST' = r.ASSUMPTIONS_DIGEST
           /\ result' = r.result
           /\ ok_claims' = IF r.result = <<"Ok">> THEN Append(ok_claims, verified)
                           ELSE ok_claims
           /\ segment_claims' = IF r.result = <<"Ok">> THEN Append(segment_claims, verified)
                                ELSE segment_claims
    /\ from_host_buf' = <<>>
    /\ host_calls' = <<>>
    /\ status' = "running"
    /\ effects' = <<>>
    /\ UNCHANGED io
    /\ UNCHANGED <<HASHER, MEMORY_IMAGE_ENTROPY, op, journal_writes, segment, nops>>

\* verify_integrity adding the claim before the host call instead of after it
VerifyIntegrity_AddBeforeCall(claim) ==
    /\ CanCall
    /\ LET checked == verify_integrity_check(claim)
       IN  IF checked = <<"Ok">>
           THEN /\ host_calls' = verify_integrity_call(claim)
                /\ result' = <<"pending">>
                /\ status' = "in_sys_verify_integrity"
                /\ ASSUMPTIONS_DIGEST' =
                       verify_integrity_resume(ASSUMPTIONS_DIGEST, claim).ASSUMPTIONS_DIGEST
           ELSE /\ host_calls' = <<>>
                /\ result' = checked
                /\ status' = "running"
                /\ ASSUMPTIONS_DIGEST' = ASSUMPTIONS_DIGEST
    /\ op' = [name |-> "verify_integrity", arg |-> claim]
    /\ nops' = nops + 1
    /\ effects' = <<>>
    /\ UNCHANGED io
    /\ UNCHANGED <<HASHER, MEMORY_IMAGE_ENTROPY, from_host_buf,
                   journal_writes, ok_claims, segment_claims, segment>>

\* verify_integrity(claim): returns an error, or blocks in sys_verify_integrity
VerifyIntegrity(claim) ==
    /\ CanCall
    /\ LET checked == verify_integrity_check(claim)
       IN  IF checked = <<"Ok">>
           THEN /\ host_calls' = verify_integrity_call(claim)
                /\ result' = <<"pending">>
                /\ status' = "in_sys_verify_integrity"
           ELSE /\ host_calls' = <<>>
                /\ result' = checked
                /\ status' = "running"
    /\ op' = [name |-> "verify_integrity", arg |-> claim]
    /\ nops' = nops + 1
    /\ effects' = <<>>
    /\ UNCHANGED io
    /\ UNCHANGED <<HASHER, ASSUMPTIONS_DIGEST, MEMORY_IMAGE_ENTROPY, from_host_buf,
                   journal_writes, ok_claims, segment_claims, segment>>

\* sys_verify_integrity returns and verify_integrity continues to its end.
VerifyIntegrityResume ==
    /\ status = "in_sys_verify_integrity"
    /\ LET r == verify_integrity_resume(ASSUMPTIONS_DIGEST, op.arg)
       IN  /\ ASSUMPTIONS_DIGEST' = r.ASSUMPTIONS_DIGEST
           /\ result' = r.result
           /\ ok_claims' = IF r.result = <<"Ok">>
                           THEN Append(ok_claims, ReceiptClaimDigest(op.arg))
                           ELSE ok_claims
           /\ segment_claims' = IF r.result = <<"Ok">>
                                THEN Append(segment_claims, ReceiptClaimDigest(op.arg))
                                ELSE segment_claims
    /\ host_calls' = <<>>
    /\ status' = "running"
    /\ effects' = <<>>
    /\ UNCHANGED io
    /\ UNCHANGED <<HASHER, MEMORY_IMAGE_ENTROPY, op, from_host_buf, journal_writes,
                   segment, nops>>

\* the bytes of stdin the host has not handed out yet
StdinAvail == Len(stdin_src.stream) - stdin_pos

\* An FdReader operation is entered: no host call yet.
ReadEnter(name, arg, phase, len) ==
    /\ CanCall
    /\ rd' = ReaderEnter(phase, len, stdin_pos)
    /\ status' = "reading"
    /\ op' = [name |-> name, arg |-> arg]
    /\ result' = <<"pending">>
    /\ host_calls' = <<>>
    /\ effects' = <<>>
    /\ nops' = nops + 1
    /\ UNCHANGED <<HASHER, ASSUMPTIONS_DIGEST, MEMORY_IMAGE_ENTROPY, from_host_buf,
                   journal_writes, ok_claims, segment_claims, segment,
                   stdin_src, stdin_pos>>

\* An FdReader operation comes to its end with outcome `res`.
ReadLeave(res) ==
    /\ result' = res
    /\ status' = IF res[1] = "panic" THEN "panicked" ELSE "running"
    /\ rd' = [rd EXCEPT !.phase = "idle"]

\* stdin().read_padded_bytes(bytes), bytes.len() = len
ReadPaddedBytes(len) == ReadEnter("read_padded_bytes", len, "data", len)

\* stdin().read_words(words), words.len() = nwords
ReadWords(nwords) == ReadEnter("read_words", nwords, "words", nwords * WORD_SIZE)

\* stdin().read_slice(buf): the word branch if the buffer casts to words
ReadSlice(slice) ==
    ReadEnter("read_slice", slice,
              IF try_cast_slice_mut(slice) THEN "words" ELSE "slice", slice.len)

\* <FdReader as std::io::Read>::read(buf), buf.len() = len
IoRead(len) == ReadEnter("io_read", len, "io", len)

\* std::io::Read::read: the one read_bytes call; the host returns nread bytes and
\* read returns Ok(nread), short or not
IoReadReturn(nread) ==
    /\ status = "reading"
    /\ rd.phase = "io"
    /\ nread \in HostReadAnswers(rd.want, StdinAvail)
    /\ rd' = [rd EXCEPT !.tot_read = nread,
                        !.buf = HostReadBytes(stdin_src.stream, stdin_pos, nread),
                        !.last = <<rd.want, nread>>,
                        !.phase = "idle"]
    /\ result' = <<"Ok", nread>>
    /\ status' = "running"
    /\ stdin_pos' = stdin_pos + nread
    /\ host_calls' = read_bytes(stdin, rd.want, nread)
    /\ effects' = <<>>
    /\ UNCHANGED <<HASHER, ASSUMPTIONS_DIGEST, MEMORY_IMAGE_ENTROPY, op,
                   from_host_buf, journal_writes, ok_claims, segment_claims, segment,
                   nops, stdin_src>>

\* read_bytes_all: one turn of the loop; the host returns nread bytes to sys_read
ReadBytesAllBody(nread) ==
    /\ status = "reading"
    /\ rd.phase \in {"data", "pad", "slice"}
    /\ read_bytes_all_loops(rd)
    /\ nread \in HostReadAnswers(rd.want - rd.tot_read, StdinAvail)
    /\ rd' = [read_bytes_all_body(rd, HostReadBytes(stdin_src.stream, stdin_pos, nread))
                  EXCEPT !.last = <<rd.want - rd.tot_read, nread>>]
    /\ stdin_pos' = stdin_pos + nread
    /\ host_calls' = read_bytes(stdin, rd.want - rd.tot_read, nread)
    /\ effects' = <<>>
    /\ UNCHANGED <<HASHER, ASSUMPTIONS_DIGEST, MEMORY_IMAGE_ENTROPY, status, op, result,
                   from_host_buf, journal_writes, ok_claims, segment_claims, segment,
                   nops, stdin_src>>

\* read_bytes_all returns tot_read and its caller goes on: read_padded_bytes to its
\* padding or to its end, read_slice to its end
ReadBytesAllReturn ==
    /\ status = "reading"
    /\ rd.phase \in {"data", "pad", "slice"}
    /\ ~read_bytes_all_loops(rd)
    /\ IF rd.phase = "data"
       THEN LET r == read_padded_bytes_data(rd)
            IN  IF r.result = <<"pending">>
                THEN /\ rd' = [rd EXCEPT !.phase = "pad", !.want = r.pad_bytes,
                                          !.tot_read = 0, !.brk = FALSE]
                     /\ UNCHANGED <<status, result>>
                ELSE ReadLeave(r.result)
       ELSE IF rd.phase = "pad"
       THEN ReadLeave(read_padded_bytes_padding(rd))
       ELSE ReadLeave(read_slice_bytes(rd))
    /\ host_calls' = <<>>
    /\ effects' = <<>>
    /\ UNCHANGED <<HASHER, ASSUMPTIONS_DIGEST, MEMORY_IMAGE_ENTROPY, op,
                   from_host_buf, journal_writes, ok_claims, segment_claims, segment,
                   nops, stdin_src, stdin_pos>>

\* read_words: the one sys_read_words call; the host returns nread_bytes, and
\* read_words (or read_slice's unwrap of it) comes to its end
SysReadWords(nread_bytes) ==
    /\ status = "reading"
    /\ rd.phase = "words"
    /\ nread_bytes \in HostReadAnswers(rd.want, StdinAvail)
    /\ LET nwords == rd.want \div WORD_SIZE
           l == [rd EXCEPT !.tot_read = nread_bytes,
                           !.buf = HostReadBytes(stdin_src.stream, stdin_pos, nread_bytes),
                           !.last = <<rd.want, nread_bytes>>]
           res == IF op.name = "read_slice"
                  THEN read_slice_words(nwords, nread_bytes)
                  ELSE read_words(nwords, nread_bytes)
       IN  /\ rd' = [l EXCEPT !.phase = "idle"]
           /\ result' = res
           /\ status' = IF res[1] = "panic" THEN "panicked" ELSE "running"
           /\ host_calls' = << <<"sys_read_words", stdin.fd, nwords, nread_bytes>> >>
    /\ stdin_pos' = stdin_pos + nread_bytes
    /\ effects' = <<>>
    /\ UNCHANGED <<HASHER, ASSUMPTIONS_DIGEST, MEMORY_IMAGE_ENTROPY, op,
                   from_host_buf, journal_writes, ok_claims, segment_claims, segment,
                   nops, stdin_src>>

\* The host finds no matching receipt: the verification call never returns.
HostAbort ==
    /\ status \in {"in_sys_verify", "in_sys_verify_integrity"}
    /\ status' = "aborted"
    /\ host_calls' = <<>>
    /\ result' = <<"diverged">>
    /\ effects' = <<>>
    /\ UNCHANGED io
    /\ UNCHANGED <<HASHER, ASSUMPTIONS_DIGEST, MEMORY_IMAGE_ENTROPY, op, from_host_buf,
                   journal_writes, ok_claims, segment_claims, segment, nops>>

\* send_recv_slice(syscall_name, to_host) with to_host: &[T] of to_host_len elements
\* and the return type &[U]: runs up to the first syscall and waits for its return
SendRecvSlice(T, U, to_host_len) ==
    /\ CanCall
    /\ host_calls' = << send_recv_slice_first(T, to_host_len) >>
    /\ op' = [name |-> "send_recv_slice",
              arg |-> [T |-> T, U |-> U, to_host_len |-> to_host_len,
                       calls |-> << send_recv_slice_first(T, to_host_len) >>,
                       nelem |-> 0, nwords |-> 0]]
    /\ result' = <<"pending">>
    /\ status' = "in_syscall_first"
    /\ nops' = nops + 1
    /\ effects' = <<>>
    /\ UNCHANGED io
    /\ UNCHANGED <<HASHER, ASSUMPTIONS_DIGEST, MEMORY_IMAGE_ENTROPY, from_host_buf,
                   journal_writes, ok_claims, segment_claims, segment>>

\* The first syscall returns nelem; send_recv_slice allocates from_host_buf and
\* issues the second syscall.
SendRecvSliceAlloc(nelem) ==
    /\ status = "in_syscall_first"
    /\ LET nwords == send_recv_slice_nwords(op.arg.T, op.arg.U, nelem)
       IN  /\ host_calls' = << send_recv_slice_second(nwords) >>
           /\ op' = [op EXCEPT !.arg.nelem = nelem, !.arg.nwords = nwords,
                               !.arg.calls = Append(op.arg.calls,
                                                    send_recv_slice_second(nwords))]
    /\ status' = "in_syscall_second"
    /\ effects' = <<>>
    /\ UNCHANGED io
    /\ UNCHANGED <<HASHER, ASSUMPTIONS_DIGEST, MEMORY_IMAGE_ENTROPY, result, from_host_buf,
                   journal_writes, ok_claims, segment_claims, segment, nops>>

\* The second syscall returns; send_recv_slice casts from_host_buf to a slice of U
\* and returns its first nelem elements. Whether sys_alloc_words gave a pointer
\* aligned for U is up to the allocator.
SendRecvSliceReturn(ptr_aligned) ==
    /\ status = "in_syscall_second"
    /\ LET res == send_recv_slice_result(op.arg.U, op.arg.nwords, op.arg.nelem, ptr_aligned)
       IN  /\ result' = res
           /\ status' = IF res[1] = "panic" THEN "panicked" ELSE "running"
    /\ host_calls' = <<>>
    /\ effects' = <<>>
    /\ UNCHANGED io
    /\ UNCHANGED <<HASHER, ASSUMPTIONS_DIGEST, MEMORY_IMAGE_ENTROPY, op, from_host_buf,
                   journal_writes, ok_claims, segment_claims, segment, nops>>

\* cycle_count whose value is fed to the journal hasher
CycleCount_Hashed(count) ==
    /\ CanCall
    /\ HASHER' = Some(Sha256_update(HASHER[2], <<count>>))
    /\ host_calls' = << <<"sys_cycle_count">> >>
    /\ op' = [name |-> "cycle_count", arg |-> <<>>]
    /\ result' = <<"Ok", count>>
    /\ nops' = nops + 1
    /\ effects' = <<>>
    /\ UNCHANGED io
    /\ UNCHANGED <<ASSUMPTIONS_DIGEST, MEMORY_IMAGE_ENTROPY, status, from_host_buf,
                   journal_writes, ok_claims, segment_claims, segment>>

\* cycle_count(): sys_cycle_count(), whose value the host chooses
CycleCount(count) ==
    /\ CanCall
    /\ host_calls' = << <<"sys_cycle_count">> >>
    /\ op' = [name |-> "cycle_count", arg |-> <<>>]
    /\ result' = <<"Ok", count>>
    /\ nops' = nops + 1
    /\ effects' = <<>>
    /\ UNCHANGED io
    /\ UNCHANGED <<HASHER, ASSUMPTIONS_DIGEST, MEMORY_IMAGE_ENTROPY, status, from_host_buf,
                   journal_writes, ok_claims, segment_claims, segment>>

\* exit returning to its caller after the halt
Exit_Returns(exit_code) ==
    /\ CanCall
    /\ LET r == finalize(HASHER, ASSUMPTIONS_DIGEST, TRUE, exit_code)
       IN  /\ HASHER' = Some(Sha256_new)
           /\ host_calls' = r.calls
           /\ status' = "running"
    /\ op' = [name |-> "exit", arg |-> exit_code]
    /\ result' = <<"Ok">>
    /\ nops' = nops + 1
    /\ effects' = <<>>
    /\ UNCHANGED io
    /\ UNCHANGED <<ASSUMPTIONS_DIGEST, MEMORY_IMAGE_ENTROPY, from_host_buf,
                   journal_writes, ok_claims, segment_claims, segment>>

\* exit(exit_code): finalize(true, exit_code); sys_halt does not return
Exit(exit_code) ==
    /\ CanCall
    /\ LET r == finalize(HASHER, ASSUMPTIONS_DIGEST, TRUE, exit_code)
       IN  /\ HASHER' = r.HASHER
           /\ host_calls' = r.calls
           /\ status' = IF r.panic THEN "panicked" ELSE "halted"
    /\ op' = [name |-> "exit", arg |-> exit_code]
    /\ result' = <<"diverged">>
    /\ nops' = nops + 1
    /\ effects' = <<>>
    /\ UNCHANGED io
    /\ UNCHANGED <<ASSUMPTIONS_DIGEST, MEMORY_IMAGE_ENTROPY, from_host_buf,
                   journal_writes, ok_claims, segment_claims, segment>>

\* pause(exit_code), first half: finalize(false, exit_code) blocks in sys_pause
Pause(exit_code) ==
    /\ CanCall
    /\ LET r == finalize(HASHER, ASSUMPTIONS_DIGEST, FALSE, exit_code)
       IN  /\ HASHER' = r.HASHER
           /\ host_calls' = r.calls
           /\ status' = IF r.panic THEN "panicked" ELSE "in_sys_pause"
    /\ op' = [name |-> "pause", arg |-> exit_code]
    /\ result' = <<"pending">>
    /\ nops' = nops + 1
    /\ effects' = <<>>
    /\ UNCHANGED io
    /\ UNCHANGED <<ASSUMPTIONS_DIGEST, MEMORY_IMAGE_ENTROPY, from_host_buf,
                   journal_writes, ok_claims, segment_claims, segment>>

\* pause(exit_code), second half: sys_pause returns (the guest is resumed), then init()
PauseResume(entropy) ==
    /\ status = "in_sys_pause"
    /\ LET r == init(HASHER, entropy)
       IN  /\ HASHER' = r.HASHER
           /\ host_calls' = r.calls
           /\ status' = IF r.panic THEN "panicked" ELSE "running"
           /\ MEMORY_IMAGE_ENTROPY' = IF r.panic THEN MEMORY_IMAGE_ENTROPY ELSE entropy
           /\ journal_writes' = IF r.panic THEN journal_writes ELSE <<>>
           /\ segment_claims' = IF r.panic THEN segment_claims ELSE <<>>
           /\ segment' = IF r.panic THEN segment ELSE segment + 1
    /\ result' = <<"Ok">>
    /\ effects' = <<>>
    /\ UNCHANGED io
    /\ UNCHANGED <<ASSUMPTIONS_DIGEST, op, from_host_buf, ok_claims, nops>>

Next ==
    \/ \E buf \in Bufs : WriteSlice(journal, buf)
    \/ \E image_id \in ImageIds, journal_bytes \in VerifyJournals :
           Verify(image_id, journal_bytes)
    \/ \E post \in PostDigests, code \in SysExitCodes : SysVerifyReturn(post, code)
    \/ VerifyResume
    \/ \E claim \in IntegrityClaims : VerifyIntegrity(claim)
    \/ VerifyIntegrityResume
    \/ HostAbort
    \/ \E exit_code \in UserExitCodes : Exit(exit_code)
    \/ \E exit_code \in UserExitCodes : Pause(exit_code)
    \/ \E entropy \in Entropy : PauseResume(entropy)

Spec == Init /\ [][Next]_vars

\* The guest only writes: every FdWriter operation on every default writer.
NextCodec ==
    \/ \E w \in Writers, buf \in CodecBufs : WriteSlice(w, buf)
    \/ \E w \in Writers, words \in CodecWords : WriteWords(w, words)
    \/ \E w \in Writers, bytes \in CodecBufs : WritePaddedBytes(w, bytes)
    \/ \E w \in Writers, buf \in CodecBufs : IoWrite(w, buf)
    \/ \E w \in Writers : IoFlush(w)

SpecCodec == Init /\ [][NextCodec]_vars

----------------------------------------------------------------------------
(* Vocabulary of the properties *)

RECURSIVE Concat(_)
\* the concatenation s1 \o s2 \o ... \o sn of a sequence of byte sequences
Concat(bufs) == IF bufs = <<>> THEN <<>> ELSE Head(bufs) \o Concat(Tail(bufs))

RECURSIVE FoldClaims(_)
\* the assumptions digest after adding the claim digests of `claims`, first to last,
\* to the empty list
FoldClaims(claims) ==
    IF claims = <<>> THEN ZERO
    ELSE <<"risc0.Assumptions", claims[Len(claims)],
           FoldClaims(SubSeq(claims, 1, Len(claims) - 1))>>

Zeros(n) == [i \in 1..n |-> 0]

\* finalize has just issued its terminal host call
Finalized == status \in {"halted", "in_sys_pause"}
\* the Output digest carried by that call, its journal and assumptions components
CommittedDigest == host_calls[1][3]
CommittedJournal == CommittedDigest[2]
CommittedAssumptions == CommittedDigest[3]

\* pause(code) has returned to its caller and nothing has happened since
PauseReturned == op.name = "pause" /\ status = "running"

----------------------------------------------------------------------------
(* C1: after pause(code) returns, the running assumptions digest is the    *)
(* empty (zero) digest, and the output digest committed by the next        *)
(* finalize carries only the claims verified since that pause.             *)
C1_PauseResetsAssumptions ==
    /\ PauseReturned => AssumptionsDigest(ASSUMPTIONS_DIGEST) = ZERO
    /\ Finalized => CommittedAssumptions = FoldClaims(segment_claims)

----------------------------------------------------------------------------
(* C2: the journal digest that finalize puts in the Output is the hash of  *)
(* the concatenation, in write order, of the buffers written to the        *)
(* journal since init; any reordering of those buffers whose concatenation *)
(* differs has a different digest.                                         *)
C2_JournalDigestIsHashOfWrites ==
    Finalized =>
        /\ CommittedJournal = <<"sha256", Concat(journal_writes)>>
        /\ \A p \in Permutations(1..Len(journal_writes)) :
               LET reordered == [i \in 1..Len(journal_writes) |-> journal_writes[p[i]]]
               IN  Concat(reordered) # Concat(journal_writes)
                       => <<"sha256", Concat(reordered)>> # CommittedJournal

C2_Witness ==
    /\ Finalized
    /\ Len(journal_writes) = 2
    /\ journal_writes[1] \o journal_writes[2] # journal_writes[2] \o journal_writes[1]

----------------------------------------------------------------------------
\* digest of the claim of IntegrityClaims whose output is absent
ZeroOutputClaimDigest == <<"risc0.ReceiptClaim", ZERO, Raw(1), Raw(2), ZERO, <<0, 0>>>>

\* the claims verify_integrity accepts, and the pairs of them with different digests
AcceptedClaims == {c \in IntegrityClaims : OptionOutputDigest(c.output) \in
                      {ZERO, <<"risc0.Output", <<"sha256", <<>>>>, ZERO>>}}
DistinctPairs == {ab \in AcceptedClaims \X AcceptedClaims :
                     ReceiptClaimDigest(ab[1]) # ReceiptClaimDigest(ab[2])}

(* C3: the running assumptions digest is the fold, in call order, of the   *)
(* claim digests of exactly the verify / verify_integrity calls that       *)
(* returned Ok (nothing is removed or reordered), and adding two claims    *)
(* with different digests in the two possible orders gives different       *)
(* accumulators.                                                           *)
C3_AssumptionsAppendOnlyOrdered ==
    /\ ASSUMPTIONS_DIGEST = Pruned(FoldClaims(ok_claims))
    /\ status = "running" => \A ab \in DistinctPairs :
           verify_integrity_resume(
               verify_integrity_resume(ASSUMPTIONS_DIGEST, ab[1]).ASSUMPTIONS_DIGEST,
               ab[2]).ASSUMPTIONS_DIGEST
           # verify_integrity_resume(
                 verify_integrity_resume(ASSUMPTIONS_DIGEST, ab[2]).ASSUMPTIONS_DIGEST,
                 ab[1]).ASSUMPTIONS_DIGEST

C3_Witness ==
    /\ Len(ok_claims) = 2
    /\ ok_claims[1] # ok_claims[2]
    /\ op.name = "verify_integrity"
    /\ result = <<"Ok">>

----------------------------------------------------------------------------
\* the step in which verify continues after sys_verify has returned
VerifyContinues == status = "sys_verify_returned" /\ status' = "running"

(* C4: verify returns Ok exactly when the host answers raw exit code 0     *)
(* (Halted(0)) or 1 (Paused(0)); for every other code (SystemSplit, or a   *)
(* code that decodes to no ExitCode) it returns Err(BadExitCodeResponse)   *)
(* carrying (code, 0) and leaves the assumptions digest unchanged.         *)
C4_VerifyRejectsBadExitCode ==
    [][VerifyContinues =>
          IF from_host_buf[2] \in {0, 1}
          THEN result' = <<"Ok">>
          ELSE /\ result' = <<"BadExitCodeResponse", <<from_host_buf[2], 0>>>>
               /\ ASSUMPTIONS_DIGEST' = ASSUMPTIONS_DIGEST]_vars

C4_Witness ==
    /\ op.name = "verify"
    /\ result = <<"BadExitCodeResponse", <<2, 0>>>>
    /\ ok_claims # <<>>

----------------------------------------------------------------------------
\* the step in which verify_integrity(claim) is called
VerifyIntegrityCalled == nops' = nops + 1 /\ op'.name = "verify_integrity"

\* the claim's output is present (an unpruned Some) with a non-zero assumptions digest
OutputHasAssumptions(claim) ==
    /\ claim.output[1] = "Value"
    /\ claim.output[2] # None
    /\ AssumptionsDigest(claim.output[2][2].assumptions) # ZERO

(* C5: verify_integrity on a claim whose output is present with a non-zero *)
(* assumptions digest returns Err(NonEmptyAssumptionsList) at once: no     *)
(* host call is issued and the assumptions digest is unchanged.            *)
C5_NonEmptyAssumptionsRejected ==
    [][(VerifyIntegrityCalled /\ OutputHasAssumptions(op'.arg)) =>
          /\ result' = <<"NonEmptyAssumptionsList">>
          /\ status' = "running"
          /\ host_calls' = <<>>
          /\ ASSUMPTIONS_DIGEST' = ASSUMPTIONS_DIGEST]_vars

C5_Witness ==
    /\ op.name = "verify_integrity"
    /\ result = <<"NonEmptyAssumptionsList">>
    /\ ok_claims # <<>>

----------------------------------------------------------------------------
\* digest of ReceiptClaim{pre: image_id, post: post, exit_code: decoded code, input: ZERO,
\*   output: Output{journal: hash(journal_bytes), assumptions: ZERO}}, written out as a term
VerifiedClaimDigest(image_id, journal_bytes, post, code) ==
    <<"risc0.ReceiptClaim", ZERO, image_id, post,
      <<"risc0.Output", <<"sha256", journal_bytes>>, ZERO>>, <<code, 0>>>>

(* C6: a verify(image_id, journal) that the host answers with (post, code), *)
(* code being Halted(0) or Paused(0), returns Ok and appends exactly one    *)
(* entry, the digest of the claim built from image_id, post, the decoded    *)
(* code, a zero input and Output{hash(journal), ZERO}; from empty           *)
(* assumptions, verify(ZERO, []) leaves the digest of that single claim.    *)
C6_VerifyAddsSynthesizedClaim ==
    /\ [][(VerifyContinues /\ from_host_buf[2] \in {0, 1}) =>
             /\ result' = <<"Ok">>
             /\ ASSUMPTIONS_DIGEST' =
                    Pruned(<<"risc0.Assumptions",
                             VerifiedClaimDigest(op.arg[1], op.arg[2],
                                                 from_host_buf[1], from_host_buf[2]),
                             AssumptionsDigest(ASSUMPTIONS_DIGEST)>>)]_vars
    /\ [][(VerifyContinues /\ from_host_buf[2] = 0 /\ op.arg = <<ZERO, <<>>>>
              /\ ASSUMPTIONS_DIGEST = Pruned(ZERO)) =>
             ASSUMPTIONS_DIGEST' =
                 Pruned(<<"risc0.Assumptions",
                          <<"risc0.ReceiptClaim", ZERO, ZERO, from_host_buf[1],
                            <<"risc0.Output", <<"sha256", <<>>>>, ZERO>>, <<0, 0>>>>,
                          ZERO>>)]_vars

C6_Witness ==
    /\ op = [name |-> "verify", arg |-> <<ZERO, <<>>>>]
    /\ result = <<"Ok">>
    /\ Len(ok_claims) = 1
    /\ ok_claims[1][6] = <<0, 0>>

----------------------------------------------------------------------------
\* the host has control in a verification call, or has just filled verify's buffer
InVerificationCall == status \in {"in_sys_verify", "in_sys_verify_integrity"}
\* the step in which a verification host call returns and the guest runs on to the
\* end of the operation
VerificationReturns ==
    /\ status \in {"sys_verify_returned", "in_sys_verify_integrity"}
    /\ status' = "running"

(* C7: when the host does not return from sys_verify / sys_verify_integrity *)
(* the guest never runs again: nothing changes any more, so the assumptions *)
(* digest is not updated and no halt or pause call follows. The assumptions *)
(* digest changes only in a step that follows the return of a verification  *)
(* host call, never in the step that issues the call or while it is pending.*)
C7_NoReturnNoUpdate ==
    /\ [][status = "aborted" => UNCHANGED vars]_vars
    /\ [][(InVerificationCall /\ status' = "aborted") =>
             /\ ASSUMPTIONS_DIGEST' = ASSUMPTIONS_DIGEST
             /\ host_calls' = <<>>]_vars
    /\ [][ASSUMPTIONS_DIGEST' # ASSUMPTIONS_DIGEST => VerificationReturns]_vars
    /\ [][(status = "running" /\ status' \in {"in_sys_verify", "in_sys_verify_integrity"}) =>
             /\ ASSUMPTIONS_DIGEST' = ASSUMPTIONS_DIGEST
             /\ Len(host_calls') = 1
             /\ host_calls'[1][1] = IF status' = "in_sys_verify" THEN "sys_verify"
                                    ELSE "sys_verify_integrity"]_vars

C7_Witness ==
    /\ status = "aborted"
    /\ op.name = "verify_integrity"
    /\ ok_claims # <<>>
    /\ ASSUMPTIONS_DIGEST = Pruned(FoldClaims(ok_claims))

----------------------------------------------------------------------------
\* the claim's output is a pruned placeholder with a non-zero digest
OutputPrunedNonZero(claim) == claim.output[1] = "Pruned" /\ claim.output[2] # ZERO
\* the claim's output is absent (None, or pruned to the zero digest) or present with
\* empty assumptions
OutputUnconditional(claim) ==
    \/ claim.output = Value(None)
    \/ claim.output = Pruned(ZERO)
    \/ /\ claim.output[1] = "Value"
       /\ claim.output[2] # None
       /\ AssumptionsDigest(claim.output[2][2].assumptions) = ZERO

(* C8: verify_integrity on a claim whose output is pruned to a non-zero     *)
(* digest returns Err(PrunedValueError) with no host call and no change of  *)
(* the assumptions digest; on a claim whose output is absent or has empty   *)
(* assumptions it issues exactly one sys_verify_integrity call carrying     *)
(* digest(claim) and, when that returns, appends exactly digest(claim) and  *)
(* returns Ok.                                                              *)
C8_PrunedOutputRejected ==
    /\ [][(VerifyIntegrityCalled /\ OutputPrunedNonZero(op'.arg)) =>
             /\ result' = <<"PrunedValueError", op'.arg.output[2]>>
             /\ status' = "running"
             /\ host_calls' = <<>>
             /\ ASSUMPTIONS_DIGEST' = ASSUMPTIONS_DIGEST]_vars
    /\ [][(VerifyIntegrityCalled /\ OutputUnconditional(op'.arg)) =>
             /\ status' = "in_sys_verify_integrity"
             /\ host_calls' = << <<"sys_verify_integrity", ReceiptClaimDigest(op'.arg)>> >>
             /\ ASSUMPTIONS_DIGEST' = ASSUMPTIONS_DIGEST]_vars
    /\ [][(status = "in_sys_verify_integrity" /\ status' = "running") =>
             /\ result' = <<"Ok">>
             /\ host_calls' = <<>>
             /\ ASSUMPTIONS_DIGEST' =
                    Pruned(<<"risc0.Assumptions", ReceiptClaimDigest(op.arg),
                             AssumptionsDigest(ASSUMPTIONS_DIGEST)>>)]_vars

C8_Witness ==
    /\ op.name = "verify_integrity"
    /\ result = <<"PrunedValueError", Raw(9)>>
    /\ Len(ok_claims) = 2
    /\ ok_claims[1] = ZeroOutputClaimDigest
    /\ ok_claims[2] = ZeroOutputClaimDigest

----------------------------------------------------------------------------
(* C9: the output digest handed to the pause (or halt) host call is         *)
(* computed from the journal bytes written in the segment being ended and   *)
(* from all assumptions accumulated so far; while the host holds the pause  *)
(* the hasher is drained, and when pause returns the hasher is fresh, so    *)
(* the journal digest of the next finalize is the hash of only the bytes    *)
(* written after the pause (of the empty string if none).                   *)
C9_PauseStartsFreshJournal ==
    /\ Finalized =>
           /\ CommittedDigest = <<"risc0.Output", <<"sha256", Concat(journal_writes)>>,
                                  FoldClaims(ok_claims)>>
           /\ HASHER = None
    /\ PauseReturned => (HASHER = Some(<<>>) /\ journal_writes = <<>>)
    /\ (segment > 1 /\ Finalized /\ journal_writes = <<>>) =>
           CommittedJournal = <<"sha256", <<>>>>

C9_Witness ==
    /\ segment = 2
    /\ status = "halted"
    /\ journal_writes = << <<2, 3>> >>

\* between the write before the pause and the finalize after it: the pause digest covered
\* the bytes, the next one does not
C9_WitnessEmptyAfterPause ==
    /\ segment = 2
    /\ status = "halted"
    /\ journal_writes = <<>>
    /\ nops = 3

----------------------------------------------------------------------------
\* the bytes the host received in the latest step, call after call
BytesSent == Concat([i \in 1..Len(host_calls) |-> host_calls[i][3]])

(* C10: write_padded_bytes on L bytes sends the host, on the writer's       *)
(* descriptor, exactly those L bytes followed by (4 - L mod 4) mod 4 zero   *)
(* bytes: L rounded up to a multiple of 4 in total, and a single write      *)
(* without padding when L is a multiple of 4 (L = 0 included).              *)
C10_WritePaddedBytesPadsToWord ==
    op.name = "write_padded_bytes" =>
        LET fd == op.arg[1]
            bytes == op.arg[2]
            L == Len(bytes)
        IN  /\ \A i \in 1..Len(host_calls) :
                   host_calls[i][1] = "sys_write" /\ host_calls[i][2] = fd
            /\ BytesSent = bytes \o Zeros((4 - (L % 4)) % 4)
            /\ Len(BytesSent) = 4 * ((L + 3) \div 4)
            /\ L % 4 = 0 => host_calls = << <<"sys_write", fd, bytes>> >>

C10_Witness ==
    /\ op.name = "write_padded_bytes"
    /\ op.arg = <<JOURNAL, <<1, 2, 3, 4, 5>>>>
    /\ host_calls = << <<"sys_write", JOURNAL, <<1, 2, 3, 4, 5>>>>,
                       <<"sys_write", JOURNAL, <<0, 0, 0>>>> >>

\* an aligned length, where no padding is written
C10_WitnessAligned ==
    /\ op.name = "write_padded_bytes"
    /\ Len(op.arg[2]) = 4
    /\ Len(host_calls) = 1

----------------------------------------------------------------------------
(* The guest only reads: every FdReader operation on stdin, against a host *)
(* that may answer any read with fewer bytes than asked for.               *)

\* the byte stream write_padded_bytes(bytes) sends to the host
PaddedStream(bytes) ==
    LET calls == write_padded_bytes(stdout, None, bytes).calls
    IN  Concat([i \in 1..Len(calls) |-> calls[i][3]])

\* the second value on stdin
SecondValues == {<<9>>, <<9, 8, 7, 6>>}

\* stdin holds two values written with write_padded_bytes, one after the other
StdinSources ==
    {[values |-> <<b1, b2>>, stream |-> PaddedStream(b1) \o PaddedStream(b2)] :
        b1 \in CodecBufs, b2 \in SecondValues}

\* the word counts given to read_words
ReadWordCounts == {0, 1, 2}

\* the buffers given to read_slice: their length in bytes, and whether they start
\* on a word boundary
ReadSlices == [len : 0..MaxPadLen, aligned : BOOLEAN]

InitReader == \E src \in StdinSources : InitState(src)

NextReader ==
    \/ \E len \in 0..MaxPadLen : ReadPaddedBytes(len)
    \/ \E nwords \in ReadWordCounts : ReadWords(nwords)
    \/ \E slice \in ReadSlices : ReadSlice(slice)
    \/ \E nread \in 0..Len(stdin_src.stream) : ReadBytesAllBody(nread)
    \/ ReadBytesAllReturn
    \/ \E nread_bytes \in 0..Len(stdin_src.stream) : SysReadWords(nread_bytes)
    \/ \E len \in 0..MaxPadLen : IoRead(len)
    \/ \E nread \in 0..Len(stdin_src.stream) : IoReadReturn(nread)

SpecReader == InitReader /\ [][NextReader]_vars

----------------------------------------------------------------------------
\* an FdReader operation named `name` has come to its end
ReadDone(name) == op.name = name /\ rd.phase = "idle" /\ status # "reading"

\* len rounded up to a multiple of the word size
PaddedLen(len) == WORD_SIZE * ((len + WORD_SIZE - 1) \div WORD_SIZE)

\* the host answered a read with zero bytes: the end of the stream, to the reader
EndOfStream == rd.last # <<>> /\ rd.last[2] = 0

(* C11: a read_padded_bytes of L bytes that returns Ok has filled the      *)
(* buffer with the next L bytes of the channel and has taken               *)
(* (4 - L mod 4) mod 4 more bytes off it, none of them into the buffer:    *)
(* the position has advanced by L rounded up to a multiple of 4. If the    *)
(* stream ends before the data and the padding are consumed, it returns    *)
(* DeserializeUnexpectedEnd; it returns nothing else.                      *)
C11_ReadPaddedBytesConsumesPadding ==
    ReadDone("read_padded_bytes") =>
        LET L == op.arg
        IN  /\ result \in {<<"Ok">>, <<"Err", "DeserializeUnexpectedEnd">>}
            /\ result = <<"Ok">> =>
                   /\ rd.buf = SubSeq(stdin_src.stream, rd.start + 1, rd.start + L)
                   /\ stdin_pos - (rd.start + L) = (4 - (L % 4)) % 4
                   /\ stdin_pos = rd.start + PaddedLen(L)
            /\ EndOfStream => result = <<"Err", "DeserializeUnexpectedEnd">>
            /\ rd.start + PaddedLen(L) > Len(stdin_src.stream) =>
                   result = <<"Err", "DeserializeUnexpectedEnd">>

\* 5 bytes read in more than one host read, then 3 bytes of padding discarded
C11_Witness ==
    /\ ReadDone("read_padded_bytes")
    /\ op.arg = 5
    /\ result = <<"Ok">>
    /\ rd.buf = <<1, 2, 3, 4, 5>>
    /\ rd.last = <<1, 1>>
    /\ stdin_pos = 8

\* the stream ends inside the padding
C11_WitnessEndInPadding ==
    /\ ReadDone("read_padded_bytes")
    /\ rd.tot_read < rd.want
    /\ rd.want < WORD_SIZE
    /\ Len(rd.buf) = rd.len
    /\ rd.len = 2
    /\ StdinAvail = 0
    /\ result = <<"Err", "DeserializeUnexpectedEnd">>

----------------------------------------------------------------------------
\* read_padded_bytes has come to its end, from position `start` with a buffer of the
\* length of `value`, and the host never answered with zero bytes
ReadBack(value, start) ==
    /\ ReadDone("read_padded_bytes")
    /\ op.arg = Len(value)
    /\ rd.start = start
    /\ ~EndOfStream

(* C12: stdin holds the bytes sent by write_padded_bytes(b1) and then by   *)
(* write_padded_bytes(b2). However the host splits the stream into short   *)
(* reads, read_padded_bytes with a buffer of |b1| bytes returns Ok with b1 *)
(* in the buffer and the read position where the writer stood after b1, a  *)
(* multiple of 4; from there read_padded_bytes with a buffer of |b2| bytes *)
(* returns Ok with b2 and the position at the end of the stream.           *)
C12_PaddedRoundTrip ==
    LET b1 == stdin_src.values[1]
        b2 == stdin_src.values[2]
        written1 == Len(PaddedStream(b1))
    IN  /\ ReadBack(b1, 0) =>
               /\ result = <<"Ok">>
               /\ rd.buf = b1
               /\ stdin_pos = written1
               /\ stdin_pos % WORD_SIZE = 0
        /\ ReadBack(b2, written1) =>
               /\ result = <<"Ok">>
               /\ rd.buf = b2
               /\ stdin_pos = written1 + Len(PaddedStream(b2))
               /\ stdin_pos = Len(stdin_src.stream)

\* the second value read back after a first one of 5 bytes, byte by byte at the end
C12_Witness ==
    /\ stdin_src.values = << <<1, 2, 3, 4, 5>>, <<9, 8, 7, 6>> >>
    /\ ReadBack(<<9, 8, 7, 6>>, 8)
    /\ rd.buf = <<9, 8, 7, 6>>
    /\ rd.last = <<1, 1>>
    /\ stdin_pos = 12

\* the first value read back in short reads, its padding included
C12_WitnessFirst ==
    /\ stdin_src.values[1] = <<1, 2, 3>>
    /\ ReadBack(<<1, 2, 3>>, 0)
    /\ rd.buf = <<1, 2, 3>>
    /\ rd.phase = "idle"
    /\ stdin_pos = 4

----------------------------------------------------------------------------
\* the latest host read of the operation returned fewer bytes than asked, but some
ShortRead == rd.last # <<>> /\ 0 < rd.last[2] /\ rd.last[2] < rd.last[1]

\* the read paths that fill a buffer of a given length or fail
FillingReads == {"read_padded_bytes", "read_words", "read_slice"}

\* the FdReader operation reported an unexpected end (as an error or as a panic)
UnexpectedEndReported ==
    /\ op.name \in FillingReads
    /\ result \in {<<"Err", "DeserializeUnexpectedEnd">>,
                    <<"panic", "DeserializeUnexpectedEnd">>}

(* C13: on read_padded_bytes, read_words and both branches of read_slice,  *)
(* after a host read that returned fewer bytes than asked (but not zero)   *)
(* the operation is still going on, to ask for the rest; an unexpected end *)
(* is reported only when the latest host read returned zero bytes.         *)
C13_ShortReadsRetried ==
    /\ (op.name \in FillingReads /\ ShortRead) => status = "reading"
    /\ UnexpectedEndReported => EndOfStream

----------------------------------------------------------------------------
\* the operation came to its end with its latest request to the host not met
Underrun == rd.phase = "idle" /\ rd.tot_read < rd.want

\* the channel holds fewer bytes than the operation needs, from where it started
ChannelTooShort(needed) == rd.start + needed > Len(stdin_src.stream)

(* C14: when the channel ends before the request is met, read_words and    *)
(* read_padded_bytes return Err(DeserializeUnexpectedEnd) to their caller  *)
(* (the guest goes on running); read_slice panics, in its word branch and  *)
(* in its byte branch alike, and returns to its caller only with the       *)
(* buffer filled to its whole length.                                      *)
C14_UnderrunOutcomes ==
    /\ ReadDone("read_words") /\ (Underrun \/ ChannelTooShort(rd.len)) =>
           result = <<"Err", "DeserializeUnexpectedEnd">> /\ status = "running"
    /\ ReadDone("read_padded_bytes") /\ (Underrun \/ ChannelTooShort(PaddedLen(rd.len))) =>
           result = <<"Err", "DeserializeUnexpectedEnd">> /\ status = "running"
    /\ ReadDone("read_slice") =>
           /\ (Underrun \/ ChannelTooShort(rd.len)) =>
                  result = <<"panic", "DeserializeUnexpectedEnd">> /\ status = "panicked"
           /\ status = "running" =>
                  /\ result = <<"Ok">>
                  /\ Len(rd.buf) = rd.len
                  /\ rd.buf = SubSeq(stdin_src.stream, rd.start + 1, rd.start + rd.len)

\* read_slice, word branch: the channel ends after 4 of the 8 bytes asked for
C14_Witness ==
    /\ ReadDone("read_slice")
    /\ try_cast_slice_mut(op.arg)
    /\ StdinAvail = 0
    /\ rd.last[2] > 0
    /\ Underrun
    /\ status = "panicked"

\* read_slice, byte branch: the channel ends with the buffer partly filled
C14_WitnessBytes ==
    /\ ReadDone("read_slice")
    /\ ~try_cast_slice_mut(op.arg)
    /\ StdinAvail = 0
    /\ Len(rd.buf) > 0
    /\ Underrun
    /\ status = "panicked"

\* read_words and read_padded_bytes: the error is returned
C14_WitnessErr ==
    /\ ReadDone("read_words") \/ ReadDone("read_padded_bytes")
    /\ StdinAvail = 0
    /\ Underrun
    /\ result = <<"Err", "DeserializeUnexpectedEnd">>
    /\ status = "running"

----------------------------------------------------------------------------
\* the step is the call of the public operation `name`
Calls(name) == nops' = nops + 1 /\ op'.name = name

\* the host calls of the step that are calls of `name`
IssuedBy(calls, name) == {i \in 1..Len(calls) : calls[i][1] = name}

(* C15: a call of exit is made from Running, issues one sys_halt and       *)
(* nothing else, and leaves the guest Halted without returning; no step    *)
(* starts from Halted, and sys_halt is issued by no other step. A call of  *)
(* pause is made from Running and issues one sys_pause; the only step from *)
(* there is the return of pause, which leaves the guest Running again.     *)
C15_Lifecycle ==
    [][ /\ status # "halted"
        /\ Calls("exit") =>
               /\ status = "running"
               /\ status' = "halted"
               /\ Len(host_calls') = 1
               /\ host_calls'[1][1] = "sys_halt"
               /\ result' = <<"diverged">>
        /\ IssuedBy(host_calls', "sys_halt") # {} => Calls("exit")
        /\ Calls("pause") =>
               /\ status = "running"
               /\ status' = "in_sys_pause"
               /\ Len(host_calls') = 1
               /\ host_calls'[1][1] = "sys_pause"
        /\ IssuedBy(host_calls', "sys_pause") # {} => Calls("pause")
        /\ status = "in_sys_pause" =>
               /\ status' = "running"
               /\ op' = op
               /\ result' = <<"Ok">>
      ]_vars

\* exit called after a pause has returned: halted in the second segment
C15_Witness ==
    /\ status = "halted"
    /\ op.name = "exit"
    /\ segment = 2
    /\ host_calls[1][1] = "sys_halt"

\* pause called again after a pause has returned
C15_WitnessPauseAgain ==
    /\ status = "in_sys_pause"
    /\ segment = 2
    /\ host_calls[1][1] = "sys_pause"

----------------------------------------------------------------------------
\* one sys_rand call for the 4 words of MEMORY_IMAGE_ENTROPY, and no other host call
OneSysRand(calls) == calls = << <<"sys_rand", 4>> >>

(* C16: the first init issues one sys_rand for the 4-word seed; the step   *)
(* in which a sys_pause call returns issues one sys_rand for the 4 words   *)
(* (which then hold what the host gave) before the guest runs again; no    *)
(* other step issues sys_rand.                                             *)
C16_EntropyRefresh ==
    /\ (op.name = "init" => OneSysRand(host_calls) /\ Len(MEMORY_IMAGE_ENTROPY) = 4)
    /\ [][ /\ status = "in_sys_pause" =>
                  /\ OneSysRand(host_calls')
                  /\ status' = "running"
                  /\ MEMORY_IMAGE_ENTROPY' \in Entropy
                  /\ Len(MEMORY_IMAGE_ENTROPY') = 4
           /\ IssuedBy(host_calls', "sys_rand") # {} => status = "in_sys_pause"
         ]_vars

\* a pause has returned: sys_rand was called and the seed differs from the first one
C16_Witness ==
    /\ op.name = "pause"
    /\ status = "running"
    /\ segment = 2
    /\ OneSysRand(host_calls)
    /\ MEMORY_IMAGE_ENTROPY = <<5, 6, 7, 8>>

----------------------------------------------------------------------------
(* The guest writes to every default writer, has claims verified, pauses   *)
(* and exits.                                                              *)

NextIO ==
    \/ NextCodec
    \/ \E claim \in AcceptedClaims : VerifyIntegrity(claim)
    \/ VerifyIntegrityResume
    \/ \E exit_code \in UserExitCodes : Exit(exit_code)
    \/ \E exit_code \in UserExitCodes : Pause(exit_code)
    \/ \E entropy \in Entropy : PauseResume(entropy)

SpecIO == Init /\ [][NextIO]_vars

\* the step is a write operation of an FdWriter on descriptor fd
WritesTo(fd) ==
    /\ nops' = nops + 1
    /\ op'.name \in {"write_slice", "write_words", "write_padded_bytes", "io_write"}
    /\ op'.arg[1] = fd

(* C17: a write to stdout or stderr (write_slice, write_words,             *)
(* write_padded_bytes) leaves the journal hasher and the assumptions       *)
(* digest as they were; a write step that changes the hasher is a write to *)
(* the journal; and the digest committed by finalize is that of the bytes  *)
(* written to the journal and of the assumptions digest alone, whatever    *)
(* was written to stdout and stderr in between.                            *)
C17_StdoutStderrFrame ==
    /\ [][ /\ WritesTo(STDOUT) \/ WritesTo(STDERR) =>
                  /\ HASHER' = HASHER
                  /\ ASSUMPTIONS_DIGEST' = ASSUMPTIONS_DIGEST
                  /\ \A i \in 1..Len(host_calls') : host_calls'[i][2] # JOURNAL
           /\ (\E fd \in {STDOUT, STDERR, JOURNAL} : WritesTo(fd)) /\ HASHER' # HASHER =>
                  WritesTo(JOURNAL)
         ]_vars
    /\ [](Finalized =>
              CommittedDigest =
                  OutputDigest(Output(Pruned(BytesDigest(Concat(journal_writes))),
                                      Pruned(AssumptionsDigest(ASSUMPTIONS_DIGEST)))))

\* a write of 5 bytes and their padding to stderr, the journal hasher holding
\* what was written to the journal before
C17_Witness ==
    /\ op = [name |-> "write_padded_bytes", arg |-> <<STDERR, <<1, 2, 3, 4, 5>>>>]
    /\ Len(host_calls) = 2
    /\ HASHER = Some(<<1, 2>>)
    /\ journal_writes = << <<1, 2>> >>

\* a finalize after a first operation that was a write to stdout or stderr (no
\* journal write, no claim): the committed journal digest is that of no bytes
C17_WitnessFinalize ==
    /\ Finalized
    /\ nops = 2
    /\ segment = 1
    /\ journal_writes = <<>>
    /\ ok_claims = <<>>
    /\ CommittedJournal = BytesDigest(<<>>)

----------------------------------------------------------------------------
(* C18: finalize(halt, user_exit), as called by exit (halt) and by pause   *)
(* (not halt), takes the hasher out of HASHER, and issues one host call    *)
(* and no other: sys_halt if halt, sys_pause if not, with user_exit as     *)
(* given and the digest of Output{journal: sha256 state of the hasher      *)
(* taken, assumptions: the digest of ASSUMPTIONS_DIGEST as it stands}.     *)
(* ASSUMPTIONS_DIGEST is the same after as before.                         *)
C18_FinalizeCommitsOutput ==
    [][ Calls("exit") \/ Calls("pause") =>
            /\ HASHER # None
            /\ HASHER' = None
            /\ host_calls' =
                   << <<IF Calls("exit") THEN "sys_halt" ELSE "sys_pause",
                        op'.arg,
                        OutputDigest(Output(Pruned(Sha256_finalize(HASHER[2])),
                                            Pruned(AssumptionsDigest(ASSUMPTIONS_DIGEST))))>> >>
            /\ ASSUMPTIONS_DIGEST' = ASSUMPTIONS_DIGEST
      ]_vars

\* pause(1) after a journal write and an accepted claim
C18_Witness ==
    /\ status = "in_sys_pause"
    /\ op = [name |-> "pause", arg |-> 1]
    /\ host_calls[1][1] = "sys_pause"
    /\ host_calls[1][2] = 1
    /\ CommittedJournal = BytesDigest(<<1>>)
    /\ CommittedAssumptions # ZERO
    /\ ASSUMPTIONS_DIGEST # Pruned(ZERO)

\* exit(0): the halt call
C18_WitnessHalt ==
    /\ status = "halted"
    /\ host_calls[1][1] = "sys_halt"
    /\ host_calls[1][2] = 0
    /\ CommittedJournal = BytesDigest(<<2, 3>>)

----------------------------------------------------------------------------
\* the guest is between the take() of finalize and the end of the init that follows
\* (or there is no such init: it has halted)
Drained == status \in {"in_sys_pause", "halted"}

(* C19: HASHER holds a hasher in every state where guest code runs or is   *)
(* blocked in a call other than finalize's, and before and after every     *)
(* journal write; it is empty exactly between the take() of finalize and   *)
(* the init that follows a pause, and for ever after a halt. init and      *)
(* finalize alternate: finalize (exit, pause) runs only on a live hasher   *)
(* and empties it, init (the return of pause) only on an empty HASHER and  *)
(* fills it, neither unwrap panics, and no other step fills or empties it. *)
C19_HasherPresence ==
    /\ [](/\ HASHER = None <=> Drained
          /\ ~Drained => HASHER[1] = "Some"
          /\ status = "panicked" => op.name \notin {"init", "exit", "pause"})
    /\ [][ /\ Calls("exit") \/ Calls("pause") => HASHER # None /\ HASHER' = None
           /\ status = "in_sys_pause" => HASHER = None /\ HASHER' = Some(Sha256_new)
           /\ WritesTo(JOURNAL) => HASHER # None /\ HASHER' # None
           /\ (HASHER = None) # (HASHER' = None) =>
                  Calls("exit") \/ Calls("pause") \/ status = "in_sys_pause"
         ]_vars

\* the second finalize of a run: init, finalize, init, finalize
C19_Witness ==
    /\ status = "in_sys_pause"
    /\ segment = 2
    /\ nops = 2
    /\ HASHER = None

\* the hasher is back after a pause and has been fed
C19_WitnessLive ==
    /\ status = "running"
    /\ segment = 2
    /\ HASHER = Some(<<2, 3>>)

----------------------------------------------------------------------------
\* the latest step was a write operation of an FdWriter (std::io::Write::write
\* included)
Wrote == op.name \in {"write_slice", "write_words", "write_padded_bytes", "io_write"}

\* the hook of the default writer on descriptor fd
HookOf(fd) == IF fd = JOURNAL THEN "journal" ELSE "nop"

(* C20: in every write operation of an FdWriter (write_slice, write_words, *)
(* write_padded_bytes with its padding), each buffer sent to the host with *)
(* sys_write is given to the writer's hook once, with the same bytes,      *)
(* right after that host call, and the hook gets nothing else. So the      *)
(* bytes fed to the journal hasher are at all times the bytes the host     *)
(* received on the journal descriptor since init, padding included, and    *)
(* finalize commits their hash.                                            *)
C20_HookSeesEveryWrite ==
    /\ Wrote =>
           /\ Len(host_calls) >= 1
           /\ Len(effects) = 2 * Len(host_calls)
           /\ \A i \in 1..Len(host_calls) :
                  /\ host_calls[i][1] = "sys_write"
                  /\ host_calls[i][2] = op.arg[1]
                  /\ effects[2 * i - 1] = host_calls[i]
                  /\ effects[2 * i] = <<"hook", HookOf(op.arg[1]), host_calls[i][3]>>
    /\ (Wrote /\ op.arg[1] = JOURNAL) =>
           /\ Len(journal_writes) >= Len(host_calls)
           /\ \A i \in 1..Len(host_calls) :
                  journal_writes[Len(journal_writes) - Len(host_calls) + i] = host_calls[i][3]
    /\ ~Drained => HASHER = Some(Concat(journal_writes))
    /\ Finalized => CommittedJournal = Sha256_finalize(Concat(journal_writes))

\* 5 bytes and their 3 bytes of padding written to the journal after a word
C20_Witness ==
    /\ op = [name |-> "write_padded_bytes", arg |-> <<JOURNAL, <<1, 2, 3, 4, 5>>>>]
    /\ effects = << <<"sys_write", JOURNAL, <<1, 2, 3, 4, 5>>>>,
                    <<"hook", "journal", <<1, 2, 3, 4, 5>>>>,
                    <<"sys_write", JOURNAL, <<0, 0, 0>>>>,
                    <<"hook", "journal", <<0, 0, 0>>>> >>
    /\ HASHER = Some(<<4, 3, 2, 1, 1, 2, 3, 4, 5, 0, 0, 0>>)

\* the padded stream is what finalize hashes
C20_WitnessFinalize ==
    /\ Finalized
    /\ journal_writes = << <<1, 2, 3>>, <<0>> >>
    /\ CommittedJournal = Sha256_finalize(<<1, 2, 3, 0>>)

----------------------------------------------------------------------------
(* The reader against a host that answers every read it is asked, and a    *)
(* guest that goes on running: sys_read returns, and the code after it is  *)
(* executed.                                                               *)
SpecReaderFair ==
    /\ SpecReader
    /\ WF_vars(\E nread \in 0..Len(stdin_src.stream) : ReadBytesAllBody(nread))
    /\ WF_vars(ReadBytesAllReturn)
    /\ WF_vars(\E nread_bytes \in 0..Len(stdin_src.stream) : SysReadWords(nread_bytes))
    /\ WF_vars(\E nread \in 0..Len(stdin_src.stream) : IoReadReturn(nread))

\* the guest is inside a call of read_bytes_all
InReadBytesAll == status = "reading" /\ rd.phase \in {"data", "pad", "slice"}

(* C21: against a host that answers each sys_read with between 0 and the   *)
(* number of bytes asked for, every call of read_bytes_all comes to its    *)
(* end. Its total never exceeds the length asked for; when the loop is     *)
(* left the total is that length unless the latest host read returned zero *)
(* bytes; and a host read is issued only while no zero-byte read has       *)
(* occurred and the buffer is not full (so never for an empty buffer),     *)
(* each time for exactly the bytes still missing. (The sys_read of         *)
(* std::io::Read::read, which does not go through read_bytes_all, is not   *)
(* concerned.)                                                             *)
C21_ReadBytesAllTerminates ==
    /\ [](InReadBytesAll =>
              /\ rd.tot_read <= rd.want
              /\ rd.brk <=> EndOfStream
              /\ ~read_bytes_all_loops(rd) => (rd.tot_read = rd.want \/ EndOfStream))
    /\ [][ (IssuedBy(host_calls', "sys_read") # {} /\ op.name # "io_read") =>
               /\ InReadBytesAll
               /\ ~rd.brk
               /\ rd.tot_read < rd.want
               /\ rd.want > 0
               /\ host_calls' = << <<"sys_read", STDIN, rd.want - rd.tot_read,
                                      rd'.last[2]>> >>
               /\ rd'.last[2] \in 0..(rd.want - rd.tot_read)
         ]_vars
    /\ (InReadBytesAll ~> ~InReadBytesAll)

\* read_bytes_all for 5 bytes left after three host reads, the last of zero bytes
C21_Witness ==
    /\ InReadBytesAll
    /\ rd.phase = "slice"
    /\ rd.want = 5
    /\ rd.tot_read = 3
    /\ rd.buf = <<1, 2, 3>>
    /\ rd.brk
    /\ rd.last = <<2, 0>>

\* a full buffer after short reads
C21_WitnessFull ==
    /\ InReadBytesAll
    /\ rd.want = 5
    /\ rd.tot_read = 5
    /\ rd.last = <<1, 1>>
    /\ ~rd.brk

----------------------------------------------------------------------------
(* The guest commits to the journal, has claims verified, pauses and       *)
(* exits, and in between writes to stdout and stderr and asks for the      *)
(* cycle count; the host chooses the entropy, the cycle counts and its     *)
(* answers to sys_verify.                                                  *)

\* what the guest writes to stdout and stderr
LogBufs == {<<1>>, <<2, 3>>}

\* what sys_cycle_count may return
CycleCounts == {0, 1000}

\* the claims given to verify_integrity
DetClaims == {c \in AcceptedClaims : c.output \in {Pruned(ZERO), Value(None)}}

NextDet ==
    \/ \E buf \in Bufs : WriteSlice(journal, buf)
    \/ \E w \in {stdout, stderr}, buf \in LogBufs : WriteSlice(w, buf)
    \/ \E count \in CycleCounts : CycleCount(count)
    \/ \E journal_bytes \in VerifyJournals : Verify(Raw(1), journal_bytes)
    \/ \E post \in PostDigests, code \in {0, 2} : SysVerifyReturn(post, code)
    \/ VerifyResume
    \/ \E claim \in DetClaims : VerifyIntegrity(claim)
    \/ VerifyIntegrityResume
    \/ \E exit_code \in UserExitCodes : Exit(exit_code)
    \/ \E exit_code \in UserExitCodes : Pause(exit_code)
    \/ \E entropy \in Entropy : PauseResume(entropy)

SpecDet == Init /\ [][NextDet]_vars

\* the output digest as a function of the journal writes of the segment and of the
\* claims of the verification calls that returned Ok, and of nothing else
Commitment(writes, claims) ==
    OutputDigest(Output(Pruned(BytesDigest(Concat(writes))), Pruned(FoldClaims(claims))))

\* the step is one of those the commitment must not depend on
Uncommitted == Calls("cycle_count") \/ WritesTo(STDOUT) \/ WritesTo(STDERR)

\* the step is the return of a verification call to the guest
VerificationAnswered == status \in {"sys_verify_returned", "in_sys_verify_integrity"}

(* C22: the digest given to every sys_halt / sys_pause is one function of  *)
(* the journal writes of the segment and of the verification calls that    *)
(* returned Ok with the host's answers, so two executions that agree on    *)
(* these commit the same digests. The record of journal writes grows only  *)
(* by the buffer of a journal write and the record of claims only when a   *)
(* verification call is answered; writes to stdout and stderr and calls of *)
(* cycle_count (whatever the host returns) change neither these records    *)
(* nor the hasher nor the assumptions digest, and the return of pause      *)
(* leaves an empty hasher and the same assumptions digest whatever entropy *)
(* sys_rand returned.                                                      *)
C22_CommitmentDeterministic ==
    /\ [](Finalized => CommittedDigest = Commitment(journal_writes, ok_claims))
    /\ [][ /\ Uncommitted =>
                  UNCHANGED <<HASHER, ASSUMPTIONS_DIGEST, journal_writes, ok_claims, status>>
           /\ status = "in_sys_pause" =>
                  /\ HASHER' = Some(Sha256_new)
                  /\ journal_writes' = <<>>
                  /\ UNCHANGED <<ASSUMPTIONS_DIGEST, ok_claims>>
           /\ journal_writes' # journal_writes =>
                  \/ status = "in_sys_pause"
                  \/ WritesTo(JOURNAL) /\ journal_writes' = Append(journal_writes, op'.arg[2])
           /\ ok_claims' # ok_claims => VerificationAnswered
           /\ (HASHER' # HASHER \/ ASSUMPTIONS_DIGEST' # ASSUMPTIONS_DIGEST) =>
                  \/ WritesTo(JOURNAL)
                  \/ VerificationAnswered
                  \/ Calls("exit") \/ Calls("pause") \/ status = "in_sys_pause"
         ]_vars

\* a halt in the second segment, after sys_rand returned another seed than at start:
\* pause, a journal write, exit
C22_Witness ==
    /\ status = "halted"
    /\ segment = 2
    /\ nops = 3
    /\ MEMORY_IMAGE_ENTROPY = <<5, 6, 7, 8>>
    /\ journal_writes = << <<2, 3>> >>
    /\ CommittedDigest = Commitment(<< <<2, 3>> >>, <<>>)

\* the same writes with the other seed and a step the commitment does not depend on:
\* the same digest
C22_WitnessOtherRun ==
    /\ status = "halted"
    /\ segment = 1
    /\ nops = 3
    /\ MEMORY_IMAGE_ENTROPY = <<1, 2, 3, 4>>
    /\ journal_writes = << <<2, 3>> >>
    /\ ok_claims = <<>>
    /\ CommittedDigest = Commitment(<< <<2, 3>> >>, <<>>)

----------------------------------------------------------------------------
(* The guest exchanges slices with the host.                               *)

\* plain-old-data element types by size and alignment: u8, u16, u32, u64, [u8; 3]
PodTypes ==
    {[size |-> 1, align |-> 1], [size |-> 2, align |-> 2], [size |-> 4, align |-> 4],
     [size |-> 8, align |-> 8], [size |-> 3, align |-> 1]}

\* the lengths of the slices sent
ToHostLens == {0, 1, 3}

NextSlice ==
    \/ \E T \in PodTypes, U \in PodTypes, to_host_len \in ToHostLens :
           SendRecvSlice(T, U, to_host_len)
    \/ \E nelem \in 0..MaxElems : SendRecvSliceAlloc(nelem)
    \/ \E ptr_aligned \in BOOLEAN : SendRecvSliceReturn(ptr_aligned)

SpecSlice == Init /\ [][NextSlice]_vars

\* send_recv_slice has issued its second syscall, or is past it
SliceAllocated ==
    op.name = "send_recv_slice" /\ status \in {"in_syscall_second", "running", "panicked"}

(* C23: send_recv_slice makes two calls of the syscall and no more: the    *)
(* first sends the bytes of the input and has no room to receive, the      *)
(* second sends nothing and receives into the buffer allocated in between. *)
(* For every element size of T and U that buffer has room for the nelem    *)
(* elements of U announced by the first call, and send_recv_slice returns  *)
(* a slice of exactly nelem elements.                                      *)
C23_SendRecvSliceSizing ==
    /\ op.name = "send_recv_slice" /\ status = "in_syscall_first" =>
           op.arg.calls = << <<"syscall", op.arg.T.size * op.arg.to_host_len, 0>> >>
    /\ SliceAllocated =>
           /\ op.arg.calls = << <<"syscall", op.arg.T.size * op.arg.to_host_len, 0>>,
                                <<"syscall", 0, op.arg.nwords>> >>
           /\ op.arg.nwords * WORD_SIZE >= op.arg.nelem * op.arg.U.size
    /\ op.name = "send_recv_slice" /\ status \in {"running", "panicked"} =>
           result = <<"Ok", op.arg.nelem>>

====
